---- MODULE Spec2Model ----
(***************************************************************************)
(* plantangenet player: a listener thread feeds clock.tick messages from   *)
(* NATS into a mutex-guarded ClockState; the Bevy Update system            *)
(* update_display and callers of read_clock read it.                       *)
(*                                                                         *)
(* Rust's Option<T> is modelled as a set with at most one element:         *)
(* None is {} and Some(x) is {x}.  An f64 stamp is modelled as an integer   *)
(* number of thousandths (1000 is 1.0).                                    *)
(***************************************************************************)
EXTENDS Integers, Sequences, FiniteSets, TLC

VARIABLES
    stamp, paused, last_update,   \* ClockState (lib.rs:39-43)
    holders, poisoned,            \* the std::sync::Mutex around it (lib.rs:46): who holds it, its poison flag
    now,                          \* the monotonic clock read by Instant::now()
    lpc, cur, tick, result,       \* listener thread: position, message, decoded tick, last handle_tick result
    stream, closed,               \* the subscriber's message stream and whether the bus closed it
    dpc, text,                    \* Bevy main thread: position, the Text entity's first section
    cpc, cres,                    \* callers of read_clock: position, what read_clock returned
    \* History, kept for the properties (not program state):
    arrived,    \* the payloads the bus delivered, in order
    handled,    \* the payloads handed to handle_tick, in order
    writes,     \* the <<stamp, paused>> the store held as each update_clock completed
    written,    \* the <<stamp, paused>> pairs of the initial state and of every write begun
    lastOk,     \* the payload of the latest handle_tick call that returned Ok
    connects    \* the number of connection attempts

vars == <<stamp, paused, last_update, holders, poisoned, now, lpc, cur, tick,
          result, stream, closed, dpc, text, cpc, cres, arrived, handled,
          writes, written, lastOk, connects>>

storeVars == <<stamp, paused, last_update>>
histVars  == <<arrived, handled, writes, written, lastOk, connects>>

-----------------------------------------------------------------------------
(* Bounds of the model *)

MaxMsgs == 3      \* messages the bus delivers in one run
NumClients == 1   \* threads that call read_clock
MaxNow == 1       \* ticks of the monotonic clock

Clients == 1..NumClients

\* The execution contexts that take the store's lock.
ListenerCtx == <<"listener", 0>>
DisplayCtx == <<"display", 0>>
ClientCtx(c) == <<"client", c>>

-----------------------------------------------------------------------------
(* TickMessage and its decoding (serde_json::from_slice)                   *)

\* The fields of TickMessage, lib.rs:11-26.
Fields == {"id", "short_id", "event_type", "stamp", "interval", "paused",
           "stepping", "start_time", "namespace", "backpressure", "wall_time",
           "current_choice", "transport", "disposition", "connected",
           "accumulators"}

\* Option<String> fields: serde's derive fills a missing Option with None.
OptionalFields == {"current_choice", "disposition"}

RequiredFields == Fields \ OptionalFields

\* A payload: json says whether the bytes are a JSON object at all; has is the
\* set of TickMessage keys present with a value of the field's type; bad is
\* the set of keys present with a value of another type; stamp, paused and
\* stepping are the values carried under those keys when they are present.
MkPayload(j, h, b, s, p, st) ==
    [json |-> j, has |-> h, bad |-> b, stamp |-> s, paused |-> p, stepping |-> st]

DecodeErr == [ok |-> FALSE]

\* Decode, with every field defaulted when it is missing (as under
\* #[serde(default)]).
DecodeDefaulting(p) ==
    IF ~p.json THEN DecodeErr
    ELSE IF p.bad # {} THEN DecodeErr
    ELSE [ok |-> TRUE,
          stamp |-> IF "stamp" \in p.has THEN p.stamp ELSE 0,
          paused |-> IF "paused" \in p.has THEN p.paused ELSE FALSE,
          stepping |-> IF "stepping" \in p.has THEN p.stepping ELSE FALSE]

\* serde_json::from_slice::<TickMessage>: an error on malformed JSON, on a
\* key whose value has the wrong type, and on a missing non-Option field;
\* otherwise the struct, of which only stamp, paused and stepping are kept
\* here.
Decode(p) ==
    IF ~p.json THEN DecodeErr
    ELSE IF p.bad # {} THEN DecodeErr
    ELSE IF ~(RequiredFields \subseteq p.has) THEN DecodeErr
    ELSE [ok |-> TRUE, stamp |-> p.stamp, paused |-> p.paused, stepping |-> p.stepping]

\* The payloads the bus delivers in this model.
TickFull    == MkPayload(TRUE, Fields, {}, 1000, FALSE, FALSE)
TickNoOpt   == MkPayload(TRUE, RequiredFields, {}, 2000, TRUE, TRUE)
TickNoStamp == MkPayload(TRUE, Fields \ {"stamp"}, {}, 0, FALSE, FALSE)
TickGarbage == MkPayload(FALSE, {}, {}, 0, FALSE, FALSE)

Payloads == {TickFull, TickNoOpt, TickNoStamp, TickGarbage}

\* The payloads decoding is checked on: every payload that carries all
\* required fields well-typed, with or without each optional field and with
\* each of two stamps, paused and stepping flags; one payload per missing
\* required field; one per wrongly typed field; and bytes that are not JSON.
DecodePayloads ==
    {MkPayload(TRUE, Fields \ o, {}, s, p, st) :
        o \in SUBSET OptionalFields, s \in {1000, 2000}, p \in BOOLEAN, st \in BOOLEAN}
    \cup {MkPayload(TRUE, Fields \ {f}, {}, 0, FALSE, FALSE) : f \in RequiredFields}
    \cup {MkPayload(TRUE, Fields \ {f}, {f}, 0, FALSE, FALSE) : f \in Fields}
    \cup {TickGarbage}

-----------------------------------------------------------------------------
(* The display text                                                        *)

\* setup.rs:11, the text the entity is spawned with.
Waiting == [kind |-> "waiting"]

\* format!("{:.2}", stamp): the stamp rounded to hundredths (ties to even),
\* as whole part and two digits.
Fmt2(s) ==
    LET q == s \div 10
        r == s % 10
        h == IF r > 5 \/ (r = 5 /\ q % 2 = 1) THEN q + 1 ELSE q
    IN  <<h \div 100, h % 100>>

\* update_display.rs:13.
Format(s, p) == [kind |-> "clock", stamp |-> Fmt2(s), icon |-> IF p THEN "pause" ELSE "play"]

-----------------------------------------------------------------------------
(* Initial states                                                          *)

NoCall == [kind |-> "nocall"]
NoneSnap == [kind |-> "none"]
SomeSnap(s, p, lu) == [kind |-> "some", stamp |-> s, paused |-> p, last_update |-> lu]

\* What is common to every start: the listener thread is spawned and the
\* Bevy app has not run its Startup schedule yet (main.rs:13-33).
InitRest ==
    /\ holders = {}
    /\ now = 0
    /\ lpc = "Disconnected" /\ cur = <<>> /\ tick = <<>> /\ result = "none"
    /\ stream = <<>> /\ closed = FALSE
    /\ dpc = "startup" /\ text = {}
    /\ cpc = [c \in Clients |-> "idle"]
    /\ cres = [c \in Clients |-> NoCall]
    /\ arrived = <<>> /\ handled = <<>> /\ writes = <<>>
    /\ written = {<<stamp, paused>>}
    /\ lastOk = {} /\ connects = 0

\* main.rs:13, Mutex::new(ClockState::default()).
Init ==
    /\ stamp = 0 /\ paused = FALSE /\ last_update = {}
    /\ poisoned = FALSE
    /\ InitRest

\* start_tick_listener, update_clock, read_clock and update_display take the
\* SharedClockState they are given (listener.rs:9, state.rs:7, state.rs:15,
\* update_display.rs:8): any value of Arc<Mutex<ClockState>>, the mutex
\* poisoned or not.
InitAnyStore ==
    /\ \E s \in {<<0, FALSE, {}>>, <<3000, TRUE, {0}>>} :
           stamp = s[1] /\ paused = s[2] /\ last_update = s[3]
    /\ poisoned \in BOOLEAN
    /\ InitRest

\* The listener is in its loop (listener.rs:22) with two payloads buffered,
\* the bus closed after them, the app past its Startup schedule.
InitAnyPayload ==
    /\ stamp = 0 /\ paused = FALSE /\ last_update = {}
    /\ poisoned = FALSE /\ holders = {}
    /\ now = 0
    /\ lpc = "Receiving" /\ cur = <<>> /\ tick = <<>> /\ result = "none"
    /\ \E p, q \in DecodePayloads : stream = <<p, q>> /\ arrived = <<p, q>>
    /\ closed = TRUE
    /\ dpc = "idle" /\ text = {Waiting}
    /\ cpc = [c \in Clients |-> "idle"]
    /\ cres = [c \in Clients |-> NoCall]
    /\ handled = <<>> /\ writes = <<>>
    /\ written = {<<stamp, paused>>}
    /\ lastOk = {} /\ connects = 1

Alive == dpc # "exited"

-----------------------------------------------------------------------------
(* The environment: the clock, the bus                                     *)

\* Time passes.
Advance ==
    /\ Alive /\ now < MaxNow
    /\ now' = now + 1
    /\ UNCHANGED <<storeVars, holders, poisoned, lpc, cur, tick, result,
                   stream, closed, dpc, text, cpc, cres, histVars>>

\* The subscription exists from client.subscribe on (listener.rs:15-18);
\* core NATS delivers only what is published while it exists.
Subscribed == lpc \in {"Subscribed", "Receiving", "Handling", "Locking",
                       "WriteStamp", "WritePaused", "WriteLastUpdate"}

\* The bus delivers one more message to the subscriber.
Publish(p) ==
    /\ Alive /\ Subscribed /\ ~closed /\ Len(arrived) < MaxMsgs
    /\ stream' = Append(stream, p)
    /\ arrived' = Append(arrived, p)
    /\ UNCHANGED <<storeVars, holders, poisoned, now, lpc, cur, tick, result,
                   closed, dpc, text, cpc, cres, handled, writes, written,
                   lastOk, connects>>

\* The bus disconnects: the stream yields what it buffered, then None.
CloseStream ==
    /\ Alive /\ Subscribed /\ ~closed
    /\ closed' = TRUE
    /\ UNCHANGED <<storeVars, holders, poisoned, now, lpc, cur, tick, result,
                   stream, dpc, text, cpc, cres, histVars>>

-----------------------------------------------------------------------------
(* start_tick_listener, listener.rs:9-27                                   *)

\* Connect, with the store's lock taken before connecting and held across the
\* expect: the panic unwinds through the guard and poisons the mutex.
ConnectHoldingLock ==
    /\ Alive /\ lpc = "Disconnected" /\ holders = {}
    /\ \E ok \in BOOLEAN :
          /\ lpc' = IF ok THEN "Connected" ELSE "Panicked"
          /\ poisoned' = (poisoned \/ ~ok)
    /\ connects' = connects + 1
    /\ UNCHANGED <<storeVars, holders, now, cur, tick, result,
                   stream, closed, dpc, text, cpc, cres, arrived, handled,
                   writes, written, lastOk>>

\* Connect, trying again after a failure.
ConnectRetrying ==
    /\ Alive /\ lpc = "Disconnected"
    /\ \E ok \in BOOLEAN : lpc' = IF ok THEN "Connected" ELSE "Disconnected"
    /\ connects' = connects + 1
    /\ UNCHANGED <<storeVars, holders, poisoned, now, cur, tick, result,
                   stream, closed, dpc, text, cpc, cres, arrived, handled,
                   writes, written, lastOk>>

\* listener.rs:10-13: connect, and panic through expect on failure.
Connect ==
    /\ Alive /\ lpc = "Disconnected"
    /\ \E ok \in BOOLEAN : lpc' = IF ok THEN "Connected" ELSE "Panicked"
    /\ connects' = connects + 1
    /\ UNCHANGED <<storeVars, holders, poisoned, now, cur, tick, result,
                   stream, closed, dpc, text, cpc, cres, arrived, handled,
                   writes, written, lastOk>>

\* Subscribe, with the store's guard taken before the call and held across
\* it: the panic of expect unwinds through the guard and poisons the mutex.
SubscribePanicInGuard ==
    /\ Alive /\ lpc = "Connected" /\ holders = {}
    /\ \E ok \in BOOLEAN :
          /\ lpc' = IF ok THEN "Subscribed" ELSE "Panicked"
          /\ poisoned' = ~ok
    /\ UNCHANGED <<storeVars, holders, now, cur, tick, result,
                   stream, closed, dpc, text, cpc, cres, histVars>>

\* listener.rs:15-18: subscribe, and panic through expect on failure.
Subscribe ==
    /\ Alive /\ lpc = "Connected"
    /\ \E ok \in BOOLEAN : lpc' = IF ok THEN "Subscribed" ELSE "Panicked"
    /\ UNCHANGED <<storeVars, holders, poisoned, now, cur, tick, result,
                   stream, closed, dpc, text, cpc, cres, histVars>>

\* listener.rs:20: println, then the loop is entered.
StartListening ==
    /\ Alive /\ lpc = "Subscribed"
    /\ lpc' = "Receiving"
    /\ UNCHANGED <<storeVars, holders, poisoned, now, cur, tick, result,
                   stream, closed, dpc, text, cpc, cres, histVars>>

\* NextMessage, taking the newest buffered message instead of the oldest.
NextMessageNewestFirst ==
    /\ Alive /\ lpc = "Receiving" /\ stream # <<>>
    /\ cur' = <<stream[Len(stream)]>>
    /\ stream' = SubSeq(stream, 1, Len(stream) - 1)
    /\ handled' = Append(handled, stream[Len(stream)])
    /\ lpc' = "Handling"
    /\ UNCHANGED <<storeVars, holders, poisoned, now, tick, result, closed,
                   dpc, text, cpc, cres, arrived, writes, written, lastOk,
                   connects>>

\* listener.rs:22-23: subscriber.next().await yields Some(message), which is
\* handed to handle_tick.
NextMessage ==
    /\ Alive /\ lpc = "Receiving" /\ stream # <<>>
    /\ cur' = <<Head(stream)>>
    /\ stream' = Tail(stream)
    /\ handled' = Append(handled, Head(stream))
    /\ lpc' = "Handling"
    /\ UNCHANGED <<storeVars, holders, poisoned, now, tick, result, closed,
                   dpc, text, cpc, cres, arrived, writes, written, lastOk,
                   connects>>

\* listener.rs:22: subscriber.next().await yields None, the loop and the
\* function end.
StreamEnd ==
    /\ Alive /\ lpc = "Receiving" /\ stream = <<>> /\ closed
    /\ lpc' = "Ended"
    /\ UNCHANGED <<storeVars, holders, poisoned, now, cur, tick, result,
                   stream, closed, dpc, text, cpc, cres, histVars>>

-----------------------------------------------------------------------------
(* handle_tick, tick.rs:11-15, and update_clock, state.rs:7-13             *)

\* HandleTickDecode, treating a stepping clock as paused.
HandleTickDecodeStepping ==
    /\ Alive /\ lpc = "Handling"
    /\ LET r == Decode(cur[1]) IN
       IF r.ok
       THEN /\ tick' = <<[stamp |-> r.stamp, paused |-> (r.paused \/ r.stepping)]>>
            /\ lpc' = "Locking"
            /\ UNCHANGED <<cur, result>>
       ELSE /\ result' = "Err"
            /\ lpc' = "Receiving"
            /\ cur' = <<>>
            /\ UNCHANGED tick
    /\ UNCHANGED <<storeVars, holders, poisoned, now, stream, closed, dpc,
                   text, cpc, cres, histVars>>

\* HandleTickDecode, with the decode error ending the loop (a `?` in the
\* loop body instead of the `if let Err`).
HandleTickDecodeOrStop ==
    /\ Alive /\ lpc = "Handling"
    /\ LET r == Decode(cur[1]) IN
       IF r.ok
       THEN /\ tick' = <<[stamp |-> r.stamp, paused |-> r.paused]>>
            /\ lpc' = "Locking"
            /\ UNCHANGED <<cur, result>>
       ELSE /\ result' = "Err"
            /\ lpc' = "Ended"
            /\ cur' = <<>>
            /\ UNCHANGED tick
    /\ UNCHANGED <<storeVars, holders, poisoned, now, stream, closed, dpc,
                   text, cpc, cres, histVars>>

\* HandleTickDecode, falling back to a default tick where decoding fails.
HandleTickDecodeOrDefault ==
    /\ Alive /\ lpc = "Handling"
    /\ LET r == Decode(cur[1]) IN
       tick' = <<IF r.ok THEN [stamp |-> r.stamp, paused |-> r.paused]
                         ELSE [stamp |-> 0, paused |-> FALSE]>>
    /\ lpc' = "Locking"
    /\ UNCHANGED <<storeVars, holders, poisoned, now, cur, result, stream,
                   closed, dpc, text, cpc, cres, histVars>>

\* tick.rs:12: decode; `?` returns the error to the loop, which prints it
\* (listener.rs:23-25) and goes on. On success update_clock is called.
HandleTickDecode ==
    /\ Alive /\ lpc = "Handling"
    /\ LET r == Decode(cur[1]) IN
       IF r.ok
       THEN /\ tick' = <<[stamp |-> r.stamp, paused |-> r.paused]>>
            /\ lpc' = "Locking"
            /\ UNCHANGED <<cur, result>>
       ELSE /\ result' = "Err"
            /\ lpc' = "Receiving"
            /\ cur' = <<>>
            /\ UNCHANGED tick
    /\ UNCHANGED <<storeVars, holders, poisoned, now, stream, closed, dpc,
                   text, cpc, cres, histVars>>

\* state.rs:8: state.0.lock() blocks until the mutex is free. On a poisoned
\* mutex it returns Err, the `if let Ok` body is skipped and update_clock
\* returns; handle_tick then returns Ok(()) (tick.rs:14).
UpdateClockLock ==
    /\ Alive /\ lpc = "Locking" /\ holders = {}
    /\ IF poisoned
       THEN /\ lpc' = "Receiving"
            /\ result' = "Ok"
            /\ lastOk' = {cur[1]}
            /\ cur' = <<>> /\ tick' = <<>>
            /\ UNCHANGED <<holders, written>>
       ELSE /\ holders' = holders \cup {ListenerCtx}
            /\ lpc' = "WriteStamp"
            /\ written' = written \cup {<<tick[1].stamp, tick[1].paused>>}
            /\ UNCHANGED <<cur, tick, result, lastOk>>
    /\ UNCHANGED <<storeVars, poisoned, now, stream, closed, dpc, text, cpc,
                   cres, arrived, handled, writes, connects>>

\* WriteStamp, averaging the new stamp with the old one.
WriteStampAveraged ==
    /\ Alive /\ lpc = "WriteStamp"
    /\ stamp' = (stamp + tick[1].stamp) \div 2
    /\ lpc' = "WritePaused"
    /\ UNCHANGED <<paused, last_update, holders, poisoned, now, cur, tick,
                   result, stream, closed, dpc, text, cpc, cres, histVars>>

\* state.rs:9.
WriteStamp ==
    /\ Alive /\ lpc = "WriteStamp"
    /\ stamp' = tick[1].stamp
    /\ lpc' = "WritePaused"
    /\ UNCHANGED <<paused, last_update, holders, poisoned, now, cur, tick,
                   result, stream, closed, dpc, text, cpc, cres, histVars>>

\* state.rs:10.
WritePaused ==
    /\ Alive /\ lpc = "WritePaused"
    /\ paused' = tick[1].paused
    /\ lpc' = "WriteLastUpdate"
    /\ UNCHANGED <<stamp, last_update, holders, poisoned, now, cur, tick,
                   result, stream, closed, dpc, text, cpc, cres, histVars>>

\* WriteLastUpdate, with the guard leaked (std::mem::forget) instead of
\* dropped: the lock stays taken after update_clock returns.
WriteLastUpdateKeepingLock ==
    /\ Alive /\ lpc = "WriteLastUpdate"
    /\ last_update' = {now}
    /\ lpc' = "Receiving"
    /\ result' = "Ok"
    /\ writes' = Append(writes, <<stamp, paused>>)
    /\ lastOk' = {cur[1]}
    /\ cur' = <<>> /\ tick' = <<>>
    /\ UNCHANGED <<stamp, paused, holders, poisoned, now, stream, closed, dpc,
                   text, cpc, cres, arrived, handled, written, connects>>

\* WriteLastUpdate, without the assignment to last_update.
WriteLastUpdateNotStamped ==
    /\ Alive /\ lpc = "WriteLastUpdate"
    /\ holders' = holders \ {ListenerCtx}
    /\ lpc' = "Receiving"
    /\ result' = "Ok"
    /\ writes' = Append(writes, <<stamp, paused>>)
    /\ lastOk' = {cur[1]}
    /\ cur' = <<>> /\ tick' = <<>>
    /\ UNCHANGED <<storeVars, poisoned, now, stream, closed, dpc, text,
                   cpc, cres, arrived, handled, written, connects>>

\* state.rs:11-13 and tick.rs:14: last_update is stamped, the guard goes out
\* of scope, update_clock returns and handle_tick returns Ok(()).
WriteLastUpdate ==
    /\ Alive /\ lpc = "WriteLastUpdate"
    /\ last_update' = {now}
    /\ holders' = holders \ {ListenerCtx}
    /\ lpc' = "Receiving"
    /\ result' = "Ok"
    /\ writes' = Append(writes, <<stamp, paused>>)
    /\ lastOk' = {cur[1]}
    /\ cur' = <<>> /\ tick' = <<>>
    /\ UNCHANGED <<stamp, paused, poisoned, now, stream, closed, dpc, text,
                   cpc, cres, arrived, handled, written, connects>>

-----------------------------------------------------------------------------
(* The Bevy app, main.rs:21-33                                             *)

\* setup.rs:6-25, the Startup system: the Text entity is spawned.
Setup ==
    /\ dpc = "startup"
    /\ text' = {Waiting}
    /\ dpc' = "idle"
    /\ UNCHANGED <<storeVars, holders, poisoned, now, lpc, cur, tick, result,
                   stream, closed, cpc, cres, histVars>>

\* DisplayLock, reading without waiting for the mutex to be free (try_lock
\* with its failure ignored).
DisplayLockNotWaiting ==
    /\ dpc = "idle"
    /\ IF poisoned
       THEN UNCHANGED <<holders, dpc>>
       ELSE holders' = holders \cup {DisplayCtx} /\ dpc' = "locked"
    /\ UNCHANGED <<storeVars, poisoned, now, lpc, cur, tick, result, stream,
                   closed, text, cpc, cres, histVars>>

\* update_display.rs:11: one run of the Update system starts with lock();
\* on a poisoned mutex the `if let Ok` body is skipped and the system
\* returns.
DisplayLock ==
    /\ dpc = "idle" /\ holders = {}
    /\ IF poisoned
       THEN UNCHANGED <<holders, dpc>>
       ELSE holders' = holders \cup {DisplayCtx} /\ dpc' = "locked"
    /\ UNCHANGED <<storeVars, poisoned, now, lpc, cur, tick, result, stream,
                   closed, text, cpc, cres, histVars>>

\* DisplayRender, with the system clearing the paused flag through its guard
\* once it has shown it.
DisplayRenderClearing ==
    /\ dpc = "locked"
    /\ text' = IF text # {} THEN {Format(stamp, paused)} ELSE text
    /\ paused' = FALSE
    /\ holders' = holders \ {DisplayCtx}
    /\ dpc' = "idle"
    /\ UNCHANGED <<stamp, last_update, poisoned, now, lpc, cur, tick, result,
                   stream, closed, cpc, cres, histVars>>

\* update_display.rs:12-15: with the guard held the text is rewritten if
\* the query finds the single Text entity, then the guard is dropped.
DisplayRender ==
    /\ dpc = "locked"
    /\ text' = IF text # {} THEN {Format(stamp, paused)} ELSE text
    /\ holders' = holders \ {DisplayCtx}
    /\ dpc' = "idle"
    /\ UNCHANGED <<storeVars, poisoned, now, lpc, cur, tick, result, stream,
                   closed, cpc, cres, histVars>>

\* main.rs:33: App::run returns (the window is closed), main returns and
\* the process ends, the listener thread with it.
AppExit ==
    /\ dpc = "idle"
    /\ dpc' = "exited"
    /\ UNCHANGED <<storeVars, holders, poisoned, now, lpc, cur, tick, result,
                   stream, closed, text, cpc, cres, histVars>>

-----------------------------------------------------------------------------
(* read_clock, state.rs:15-17, and its callers                             *)

\* ReadClock, handing out the state of a copy taken when the store was
\* built instead of the shared one.
ReadClockStale(c) ==
    /\ Alive /\ cpc[c] = "idle" /\ holders = {}
    /\ IF poisoned
       THEN /\ cres' = [cres EXCEPT ![c] = NoneSnap]
            /\ UNCHANGED <<holders, cpc>>
       ELSE /\ cres' = [cres EXCEPT ![c] = SomeSnap(0, FALSE, {})]
            /\ holders' = holders \cup {ClientCtx(c)}
            /\ cpc' = [cpc EXCEPT ![c] = "holding"]
    /\ UNCHANGED <<storeVars, poisoned, now, lpc, cur, tick, result, stream,
                   closed, dpc, text, histVars>>

\* ReadClock, recovering the guard from a poisoned mutex
\* (unwrap_or_else(PoisonError::into_inner)) instead of lock().ok().
ReadClockIgnoringPoison(c) ==
    /\ Alive /\ cpc[c] = "idle" /\ holders = {}
    /\ cres' = [cres EXCEPT ![c] = SomeSnap(stamp, paused, last_update)]
    /\ holders' = holders \cup {ClientCtx(c)}
    /\ cpc' = [cpc EXCEPT ![c] = "holding"]
    /\ UNCHANGED <<storeVars, poisoned, now, lpc, cur, tick, result, stream,
                   closed, dpc, text, histVars>>

\* ReadClock, looking at the state without waiting for the mutex.
ReadClockUnlocked(c) ==
    /\ Alive /\ cpc[c] = "idle"
    /\ IF poisoned
       THEN /\ cres' = [cres EXCEPT ![c] = NoneSnap]
            /\ UNCHANGED <<holders, cpc>>
       ELSE /\ cres' = [cres EXCEPT ![c] = SomeSnap(stamp, paused, last_update)]
            /\ holders' = holders \cup {ClientCtx(c)}
            /\ cpc' = [cpc EXCEPT ![c] = "holding"]
    /\ UNCHANGED <<storeVars, poisoned, now, lpc, cur, tick, result, stream,
                   closed, dpc, text, histVars>>

\* state.rs:16: lock().ok(): None on a poisoned mutex, otherwise the guard,
\* through which the caller sees the state.
ReadClock(c) ==
    /\ Alive /\ cpc[c] = "idle" /\ holders = {}
    /\ IF poisoned
       THEN /\ cres' = [cres EXCEPT ![c] = NoneSnap]
            /\ UNCHANGED <<holders, cpc>>
       ELSE /\ cres' = [cres EXCEPT ![c] = SomeSnap(stamp, paused, last_update)]
            /\ holders' = holders \cup {ClientCtx(c)}
            /\ cpc' = [cpc EXCEPT ![c] = "holding"]
    /\ UNCHANGED <<storeVars, poisoned, now, lpc, cur, tick, result, stream,
                   closed, dpc, text, histVars>>

\* The caller drops the MutexGuard that read_clock returned.
DropGuard(c) ==
    /\ Alive /\ cpc[c] = "holding"
    /\ holders' = holders \ {ClientCtx(c)}
    /\ cpc' = [cpc EXCEPT ![c] = "idle"]
    /\ cres' = [cres EXCEPT ![c] = NoCall]
    /\ UNCHANGED <<storeVars, poisoned, now, lpc, cur, tick, result, stream,
                   closed, dpc, text, histVars>>

-----------------------------------------------------------------------------

Next ==
    \/ Advance
    \/ \E p \in Payloads : Publish(p)
    \/ CloseStream
    \/ Connect
    \/ Subscribe
    \/ StartListening
    \/ NextMessage
    \/ StreamEnd
    \/ HandleTickDecode
    \/ UpdateClockLock
    \/ WriteStamp
    \/ WritePaused
    \/ WriteLastUpdate
    \/ Setup
    \/ DisplayLock
    \/ DisplayRender
    \/ AppExit
    \/ \E c \in Clients : ReadClock(c)
    \/ \E c \in Clients : DropGuard(c)

Spec == Init /\ [][Next]_vars

\* The listener's loop alone (listener.rs:22-26).
NextListener ==
    \/ NextMessage
    \/ StreamEnd
    \/ HandleTickDecode
    \/ UpdateClockLock
    \/ WriteStamp
    \/ WritePaused
    \/ WriteLastUpdate

\* The loop run on two payloads drawn from DecodePayloads.
SpecAnyPayload == InitAnyPayload /\ [][NextListener]_vars

\* Scheduling: each thread that can take a step that waits for nothing
\* takes it (the listener inside update_clock, update_display with its
\* guard, a read_clock caller dropping its guard), and a thread that finds
\* the mutex free again and again at lock() gets it.
Fairness ==
    /\ WF_vars(WriteStamp) /\ WF_vars(WritePaused) /\ WF_vars(WriteLastUpdate)
    /\ WF_vars(DisplayRender)
    /\ \A c \in Clients : WF_vars(DropGuard(c))
    /\ SF_vars(DisplayLock)

\* The program under fair scheduling.
SpecFair == Init /\ [][Next]_vars /\ Fairness

\* The same program, given any store.
SpecAnyStore == InitAnyStore /\ [][Next]_vars

-----------------------------------------------------------------------------
(* Properties                                                              *)

\* The listener is inside a handle_tick call.
InHandleTick == lpc \in {"Handling", "Locking", "WriteStamp", "WritePaused",
                         "WriteLastUpdate"}

\* C1. Last-write-wins: whenever no handle_tick call is in progress and some
\* call has returned Ok, the store holds the stamp and the paused flag of
\* the message of the latest call that returned Ok, and last_update is set.
C1_LastWriteWins ==
    (~InHandleTick /\ lastOk # {}) =>
        \A m \in lastOk :
            /\ stamp = m.stamp
            /\ paused = m.paused
            /\ last_update # {}

\* Tick (1.0, false) then tick (2.0, true) were handled and the store holds
\* (2.0, true).
C1_Witness ==
    /\ lpc = "Receiving"
    /\ handled = <<TickFull, TickNoOpt>>
    /\ lastOk = {TickNoOpt}
    /\ stamp = 2000 /\ paused = TRUE

\* C2. A handle_tick call on a payload that does not decode returns Err to
\* the loop in its one step, and that step leaves stamp, paused and
\* last_update (and the mutex) as they were.
C2_DecodeFailureLeavesStore ==
    [][(lpc = "Handling" /\ lpc' # "Handling" /\ ~Decode(cur[1]).ok) =>
          /\ lpc' = "Receiving"
          /\ result' = "Err"
          /\ storeVars' = storeVars
          /\ holders' = holders /\ poisoned' = poisoned]_vars

\* A malformed payload was handled after a valid one: the call returned Err
\* and the store still shows the valid one.
C2_Witness ==
    /\ lpc = "Receiving"
    /\ handled = <<TickFull, TickNoStamp>>
    /\ result = "Err"
    /\ stamp = 1000 /\ paused = FALSE /\ last_update # {}

\* C3. No torn read: every snapshot read_clock handed out, and every text
\* update_display rendered, shows a <<stamp, paused>> pair that one write
\* wrote together (or the initial pair).
C3_NoTornRead ==
    /\ \A c \in Clients :
          cres[c].kind = "some" => <<cres[c].stamp, cres[c].paused>> \in written
    /\ \A t \in text :
          t.kind = "clock" => \E w \in written : t = Format(w[1], w[2])

\* A reader holds the snapshot of the first write while the listener waits
\* for the mutex with the second, different write.
C3_Witness ==
    /\ lpc = "Locking"
    /\ writes = <<<<1000, FALSE>>>>
    /\ tick = <<[stamp |-> 2000, paused |-> TRUE]>>
    /\ \E c \in Clients : cres[c] = SomeSnap(1000, FALSE, last_update)

\* The listener is in its receive loop (listener.rs:22-26).
InLoop == lpc = "Receiving" \/ InHandleTick

\* C4. The listener leaves the receive loop only by the stream ending (closed
\* and drained); a handle_tick call that returns Err is followed by the
\* loop waiting for the next message; the loop takes the oldest buffered
\* message next, and a handle_tick call on a payload that decodes ends with
\* the store holding that payload's stamp and paused flag.
C4_LoopSurvivesErrors ==
    [][/\ (InLoop /\ ~InLoop') =>
              (lpc = "Receiving" /\ lpc' = "Ended" /\ closed /\ stream = <<>>)
       /\ (lpc = "Handling" /\ lpc' # lpc /\ ~Decode(cur[1]).ok) =>
              (lpc' = "Receiving" /\ result' = "Err")
       /\ (lpc = "Receiving" /\ lpc' # lpc /\ stream # <<>>) =>
              (lpc' = "Handling" /\ cur' = <<Head(stream)>>)
       /\ (InHandleTick /\ lpc' = "Receiving" /\ Decode(cur[1]).ok) =>
              (stamp' = cur[1].stamp /\ paused' = cur[1].paused /\ last_update' # {})
      ]_vars

\* A malformed message was handled first, and the valid message after it was
\* applied.
C4_Witness ==
    /\ lpc = "Receiving"
    /\ handled = <<TickGarbage, TickFull>>
    /\ result = "Ok"
    /\ stamp = 1000 /\ paused = FALSE /\ last_update # {}

\* C5. last_update is set if and only if some update_clock write has
\* completed; and while none has, in every state in which the listener is
\* not inside update_clock's critical section (every state a reader can
\* see), last_update is absent, stamp is 0 and paused is false.
C5_LastUpdateIffApplied ==
    /\ last_update # {} <=> writes # <<>>
    /\ (writes = <<>> /\ ListenerCtx \notin holders) =>
           (stamp = 0 /\ paused = FALSE /\ last_update = {})
    /\ \A c \in Clients :
           cres[c].kind = "some" =>
               /\ cres[c].last_update # {} <=> writes # <<>>
               /\ cres[c].last_update = {} => (cres[c].stamp = 0 /\ cres[c].paused = FALSE)

\* One tick has been applied and last_update is set.
C5_Witness ==
    /\ lpc = "Receiving"
    /\ Len(writes) = 1
    /\ last_update # {}
    /\ stamp = 1000

\* C6. Every update_clock call, when it returns, has recorded its stamp and
\* paused arguments and set last_update to the current time.
C6_WriteAlwaysRecords ==
    [][(lpc \in {"Locking", "WriteStamp", "WritePaused", "WriteLastUpdate"}
            /\ lpc' = "Receiving") =>
          /\ stamp' = tick[1].stamp
          /\ paused' = tick[1].paused
          /\ last_update' = {now}]_vars

\* C7. read_clock returns None exactly when the mutex is poisoned, and the
\* state as it is otherwise; while the mutex is poisoned, update_display
\* leaves the text as it is, and with the guard it renders the state as it
\* is.
C7_ReadUnavailableIffPoisoned ==
    [][/\ \A c \in Clients :
              (cpc[c] = "idle" /\ (cres'[c] # cres[c] \/ cpc'[c] # cpc[c])) =>
                  IF poisoned
                  THEN cres'[c] = NoneSnap /\ cpc'[c] = "idle"
                  ELSE cres'[c] = SomeSnap(stamp, paused, last_update)
       /\ \A c \in Clients : cres'[c].kind = "none" => poisoned'
       /\ (poisoned /\ dpc # "startup") => (text' = text /\ dpc' # "locked")
       /\ (dpc = "locked" /\ dpc' # "locked" /\ text # {}) =>
              text' = {Format(stamp, paused)}
      ]_vars

\* read_clock was called on a poisoned store and returned None; the store
\* holds values and the display still shows the text it was spawned with.
C7_Witness ==
    /\ poisoned
    /\ stamp = 3000
    /\ \E c \in Clients : cres[c] = NoneSnap
    /\ text = {Waiting} /\ dpc = "idle"

\* The messages whose handle_tick call has returned.
HandledDone == IF InHandleTick THEN SubSeq(handled, 1, Len(handled) - 1) ELSE handled

DecodesOk(m) == Decode(m).ok

\* The <<stamp, paused>> pairs of the messages of ms that decode, in order.
PairsOf(ms) ==
    LET sel == SelectSeq(ms, DecodesOk)
    IN  [i \in 1..Len(sel) |-> <<sel[i].stamp, sel[i].paused>>]

\* C8. The messages handed to handle_tick, followed by those still buffered,
\* are the messages delivered, in order (each handed over once, in arrival
\* order); a message is taken only when no handle_tick call is in progress,
\* and the one being handled is the latest taken; the writes completed are
\* the pairs of the handled messages that decode, in arrival order.
C8_InOrderOneAtATime ==
    /\ [](/\ handled \o stream = arrived
          /\ InHandleTick <=> cur # <<>>
          /\ InHandleTick => (handled # <<>> /\ cur = <<handled[Len(handled)]>>)
          /\ writes = PairsOf(HandledDone))
    /\ [][handled' # handled =>
             (~InHandleTick /\ stream # <<>> /\ handled' = Append(handled, Head(stream)))]_vars

\* Three messages were handled, the second malformed, and the two valid
\* ones were written in arrival order.
C8_Witness ==
    /\ lpc = "Receiving"
    /\ handled = <<TickNoOpt, TickGarbage, TickFull>>
    /\ writes = <<<<2000, TRUE>>, <<1000, FALSE>>>>

\* C9. The listener moves only Disconnected -> Connected -> Subscribed ->
\* receive loop (or to a panic from the first two); outside the loop no
\* message has been handled and the store is as constructed; a connection
\* is attempted at most once and nothing follows a panic.
C9_ForwardOnly ==
    /\ [](/\ connects <= 1
          /\ ~(InLoop \/ lpc = "Ended") =>
                 (handled = <<>> /\ writes = <<>>
                    /\ stamp = 0 /\ paused = FALSE /\ last_update = {})
          /\ ~Subscribed => stream = <<>>)
    /\ [][/\ lpc = "Disconnected" => lpc' \in {"Disconnected", "Connected", "Panicked"}
          /\ lpc = "Connected" => lpc' \in {"Connected", "Subscribed", "Panicked"}
          /\ lpc = "Subscribed" => lpc' \in {"Subscribed", "Receiving"}
          /\ InLoop => (InLoop' \/ lpc' = "Ended")
          /\ lpc \in {"Panicked", "Ended"} => (lpc' = lpc /\ connects' = connects)
         ]_vars

\* The connection failed on the one attempt made and nothing was handled.
C9_Witness ==
    /\ lpc = "Panicked"
    /\ connects = 1
    /\ handled = <<>>
    /\ dpc = "idle" /\ text = {Format(0, FALSE)}

\* C10. The thread's JoinHandle is dropped where it is spawned
\* (main.rs:16-18), so all that the listener and the context that started it
\* share is the store: a startup failure is observable by the starter only
\* if the store shows it.
C10_FailureVisibleToStarter ==
    lpc = "Panicked" => (poisoned \/ <<stamp, paused, last_update>> # <<0, FALSE, {}>>)

\* The ClockState as Default builds it (lib.rs:38).
StoreIsDefault == stamp = 0 /\ paused = FALSE /\ last_update = {}

\* C11. Once the listener has panicked at startup (connect failed, or
\* subscribe did), it stays so; the store is in its default state and not
\* poisoned, no step changes it, read_clock does not return None, every
\* snapshot held is the default one and the display shows either the text it
\* was spawned with or the default state rendered.
C11_UnreachableBusLeavesDefault ==
    /\ [](lpc = "Panicked" =>
            /\ StoreIsDefault /\ ~poisoned
            /\ \A c \in Clients :
                  /\ cres[c].kind # "none"
                  /\ cres[c].kind = "some" => cres[c] = SomeSnap(0, FALSE, {})
            /\ text \subseteq {Waiting, Format(0, FALSE)})
    /\ [][lpc = "Panicked" => (lpc' = "Panicked" /\ storeVars' = storeVars)]_vars

\* The listener panicked at startup before any message was delivered;
\* read_clock has returned the default snapshot and update_display has
\* rendered the default state.
C11_Witness ==
    /\ lpc = "Panicked" /\ connects = 1 /\ arrived = <<>>
    /\ \E c \in Clients : cres[c] = SomeSnap(0, FALSE, {})
    /\ text = {Format(0, FALSE)}

\* Every field of TickMessage but the two Option ones is carried with a value
\* of its type, no field is carried with a value of another type, and the
\* bytes are JSON.
CarriesRequiredWellTyped(m) ==
    /\ m.json
    /\ \A f \in Fields \ {"current_choice", "disposition"} : f \in m.has
    /\ m.bad = {}

\* C12. The decoding step of handle_tick succeeds exactly on the payloads
\* that carry every required field well-typed (and no wrongly typed field):
\* then update_clock is called with the payload's stamp and paused; on any
\* other payload the call returns Err, no tick exists and the store is
\* untouched.
C12_DecodeExactlyRequired ==
    [][(lpc = "Handling" /\ lpc' # lpc) =>
          IF CarriesRequiredWellTyped(cur[1])
          THEN /\ lpc' = "Locking"
               /\ tick' = <<[stamp |-> cur[1].stamp, paused |-> cur[1].paused]>>
          ELSE /\ lpc' = "Receiving" /\ result' = "Err"
               /\ tick' = <<>>
               /\ storeVars' = storeVars]_vars

\* A payload without the two optional fields was decoded and written, and
\* the payload after it, which lacks only `paused`, was rejected.
C12_Witness ==
    /\ lpc = "Receiving"
    /\ Len(handled) = 2
    /\ handled[1].has = RequiredFields /\ handled[1].bad = {} /\ handled[1].json
    /\ handled[2].has = Fields \ {"paused"} /\ handled[2].bad = {} /\ handled[2].json
    /\ result = "Err"
    /\ writes = <<<<handled[1].stamp, handled[1].paused>>>>

\* C13. A step changes stamp, paused or last_update only if it is a step of
\* update_clock's critical section, taken by the listener with the lock
\* held; every step of update_display, of read_clock and of a read_clock
\* caller leaves the three as they were.
C13_OnlyUpdateClockMutates ==
    [][/\ storeVars' # storeVars =>
              /\ lpc \in {"WriteStamp", "WritePaused", "WriteLastUpdate"}
              /\ lpc' # lpc
              /\ ListenerCtx \in holders
       /\ (dpc' # dpc \/ text' # text \/ cpc' # cpc \/ cres' # cres) =>
              storeVars' = storeVars
      ]_vars

\* update_display rendered, and read_clock returned, the state a tick wrote,
\* and the store still holds it.
C13_Witness ==
    /\ writes = <<<<2000, TRUE>>>>
    /\ text = {Format(2000, TRUE)}
    /\ \E c \in Clients : cres[c].kind = "some" /\ cres[c].stamp = 2000
    /\ stamp = 2000 /\ paused = TRUE /\ last_update # {}

\* The <<stamp, paused>> of the latest write completed.
LastWrite == writes[Len(writes)]

\* C14. Freshness: once a write has completed, the snapshot a reader holds
\* is that of the latest write completed when it took the lock (no write
\* completes while it holds it), with last_update set, and the text
\* update_display renders is that of the latest write completed: never an
\* older write, never the initial default.
C14_ReadsAreFresh ==
    /\ [](\A c \in Clients :
            (cres[c].kind = "some" /\ writes # <<>>) =>
                /\ <<cres[c].stamp, cres[c].paused>> = LastWrite
                /\ cres[c].last_update # {})
    /\ [][/\ \A c \in Clients :
                (cpc[c] = "idle" /\ cpc'[c] = "holding" /\ writes # <<>>) =>
                    <<cres'[c].stamp, cres'[c].paused>> = LastWrite
          /\ (dpc = "locked" /\ dpc' = "idle" /\ writes # <<>>) =>
                text' = {Format(LastWrite[1], LastWrite[2])}
         ]_vars

\* After the writes (1.0, false) and (2.0, true) have completed a reader
\* holds (2.0, true) and the display shows it.
C14_Witness ==
    /\ writes = <<<<1000, FALSE>>, <<2000, TRUE>>>>
    /\ \E c \in Clients : cres[c] = SomeSnap(2000, TRUE, last_update)
    /\ last_update # {}
    /\ text = {Format(2000, TRUE)}

\* The contexts inside a critical section of the store: the listener between
\* lock() and the end of update_clock's if-let block, update_display between
\* lock() and the end of its if-let block, a read_clock caller while it has
\* the guard.
InCritical ==
    (IF lpc \in {"WriteStamp", "WritePaused", "WriteLastUpdate"} THEN {ListenerCtx} ELSE {})
    \cup (IF dpc = "locked" THEN {DisplayCtx} ELSE {})
    \cup {ClientCtx(c) : c \in {d \in Clients : cpc[d] = "holding"}}

\* C15. Mutual exclusion: at most one context holds the lock, and the
\* contexts inside a critical section are exactly the holders, so no two of
\* the writer, update_display and the read_clock callers are in their
\* critical sections together.
C15_MutualExclusion ==
    /\ Cardinality(holders) <= 1
    /\ InCritical = holders
    /\ Cardinality(InCritical) <= 1

\* update_display is in its critical section while the listener waits at
\* lock() with a tick to write and a read_clock caller is outside.
C15_Witness ==
    /\ holders = {DisplayCtx} /\ dpc = "locked"
    /\ lpc = "Locking"
    /\ \A c \in Clients : cpc[c] = "idle"

\* The handled messages that decode and whose handle_tick call has
\* returned, in order.
DecodedDone == SelectSeq(HandledDone, DecodesOk)

\* C16. Of the valid messages handled, any two that carry the same stamp and
\* the same paused flag left the store with the same stamp and paused,
\* whatever their other fields (stepping, the optional fields) and whatever
\* the store held before.
C16_OnlyStampAndPausedMatter ==
    /\ Len(writes) = Len(DecodedDone)
    /\ \A i, j \in 1..Len(writes) :
          (DecodedDone[i].stamp = DecodedDone[j].stamp
             /\ DecodedDone[i].paused = DecodedDone[j].paused)
          => writes[i] = writes[j]

\* Two valid messages with the same stamp and paused flag, differing in
\* stepping and in the optional fields they carry, were applied and left
\* the same stamp and paused.
C16_Witness ==
    /\ lpc = "Receiving"
    /\ Len(writes) = 2 /\ Len(handled) = 2
    /\ handled[1].stamp = handled[2].stamp /\ handled[1].paused = handled[2].paused
    /\ handled[1].stepping # handled[2].stepping
    /\ handled[1].has # handled[2].has
    /\ writes[1] = writes[2]

\* The listener is suspended in an await (connect, subscribe, the next
\* message) or has ended.
ListenerWaiting == lpc \in {"Disconnected", "Connected", "Subscribed",
                            "Receiving", "Panicked", "Ended"}

\* C17. While the listener waits for the connection, the subscription or
\* the next message it does not hold the store's lock, and once it holds the
\* lock it gives it up unless the process ends first; under fair scheduling
\* update_display, arriving at lock(), obtains the lock (or the process
\* ends), whether or not another message arrives.
C17_ReaderGetsLock ==
    /\ [](ListenerWaiting => ListenerCtx \notin holders)
    /\ (ListenerCtx \in holders) ~> (ListenerCtx \notin holders \/ ~Alive)
    /\ (dpc = "idle") ~> (dpc \in {"locked", "exited"})

\* The listener waits for a message that has not arrived, after a write, and
\* update_display has the lock.
C17_Witness ==
    /\ lpc = "Receiving" /\ stream = <<>> /\ ~closed
    /\ writes # <<>>
    /\ dpc = "locked" /\ holders = {DisplayCtx}

\* The listener context is over: expect panicked at connect or subscribe,
\* or the while-let loop ended with the stream.
ListenerEnded == lpc \in {"Panicked", "Ended"}

\* C18. The listener ends (panic at connect, panic at subscribe, end of the
\* stream) without the store's lock and without touching the store or its
\* poison flag; once it has ended it stays ended, the store is not poisoned
\* and never changes again, it holds the last pair written (the default if
\* none was), and every read succeeds with exactly that state.
C18_EndLeavesStoreReadable ==
    /\ [](ListenerEnded =>
            /\ ListenerCtx \notin holders /\ ~poisoned
            /\ IF writes = <<>> THEN StoreIsDefault
               ELSE <<stamp, paused>> = LastWrite /\ last_update # {}
            /\ \A c \in Clients :
                  /\ cres[c].kind # "none"
                  /\ cres[c].kind = "some" =>
                        cres[c] = SomeSnap(stamp, paused, last_update))
    /\ [][/\ (~ListenerEnded /\ ListenerEnded') =>
                UNCHANGED <<storeVars, holders, poisoned>>
          /\ ListenerEnded =>
                (lpc' = lpc /\ UNCHANGED <<storeVars, poisoned, writes>>)]_vars

\* The stream ended after a tick was written; a read made since holds that
\* tick, which is not the default.
C18_Witness ==
    /\ lpc = "Ended" /\ writes # <<>>
    /\ <<stamp, paused>> = <<2000, TRUE>>
    /\ \E c \in Clients : cres[c] = SomeSnap(2000, TRUE, last_update)
    /\ text = {Format(2000, TRUE)}

====
